---- MODULE Spec2Model ----
(***************************************************************************)
(* The streaming patch reconciliation of apps/web/components/demo.tsx:     *)
(* parsePatch, applyPatch, the read loop of handleSubmit, stopGeneration   *)
(* and the two playback effects of the Demo component.                     *)
(*                                                                         *)
(* Text is a TLA+ string, read one character at a time with SubSeq.  A     *)
(* JavaScript value is a record tagged by its type (field t), so values of *)
(* different types can be compared.                                        *)
(***************************************************************************)
EXTENDS Integers, Sequences, FiniteSets, TLC

\* ------------------------------------------------------------------------
\* JavaScript strings
\* ------------------------------------------------------------------------

Char(s, i) == SubSeq(s, i, i)

Last(q) == q[Len(q)]

Front(q) == SubSeq(q, 1, Len(q) - 1)

\* The characters String.prototype.trim removes, among those of the inputs.
WhiteSpace == {" ", "\t", "\n", "\r", "\f"}

Least(S) == CHOOSE i \in S : \A j \in S : i <= j

\* The index of the first character at or after i that trim keeps, and of the
\* last one at or before i.
RECURSIVE InkFrom(_, _)
InkFrom(s, i) ==
    IF i > Len(s) \/ Char(s, i) \notin WhiteSpace THEN i ELSE InkFrom(s, i + 1)

RECURSIVE InkUpTo(_, _)
InkUpTo(s, i) ==
    IF i < 1 \/ Char(s, i) \notin WhiteSpace THEN i ELSE InkUpTo(s, i - 1)

\* line.trim()
Trim(s) == SubSeq(s, InkFrom(s, 1), InkUpTo(s, Len(s)))

\* s.startsWith(prefix)
StartsWith(s, prefix) ==
    Len(s) >= Len(prefix) /\ SubSeq(s, 1, Len(prefix)) = prefix

\* The index of the first character of s at or after i that is in set, or 0
\* when there is none.
IndexIn(s, set, i) ==
    LET First(hits) == IF hits = {} THEN 0 ELSE Least(hits)
    IN  First({k \in i..Len(s) : Char(s, k) \in set})

\* s.indexOf(c, i), 1-based, 0 for -1.
IndexOf(s, c, i) == IndexIn(s, {c}, i)

\* s.split(sep) for a one-character separator: never empty, s itself when
\* sep does not occur.
RECURSIVE Split(_, _)
Split(s, sep) ==
    LET Cut(k) ==
            IF k = 0 THEN <<s>>
            ELSE <<SubSeq(s, 1, k - 1)>> \o Split(SubSeq(s, k + 1, Len(s)), sep)
    IN  Cut(IndexOf(s, sep, 1))

\* ------------------------------------------------------------------------
\* JavaScript values
\* ------------------------------------------------------------------------

Undefined == [t |-> "undefined"]
Null == [t |-> "null"]
Bool(b) == [t |-> "boolean", b |-> b]
Num(n) == [t |-> "number", n |-> n]
Str(s) == [t |-> "string", s |-> s]
Arr(a) == [t |-> "array", a |-> a]
Obj(o) == [t |-> "object", o |-> o]

\* An object literal without properties.
NoProps == [k \in {} |-> Undefined]

\* if (v): the falsy values are undefined, null, false, 0 and "".
Truthy(v) ==
    CASE v.t = "undefined" -> FALSE
      [] v.t = "null" -> FALSE
      [] v.t = "boolean" -> v.b
      [] v.t = "number" -> v.n # 0
      [] v.t = "string" -> v.s # ""
      [] OTHER -> TRUE

\* v.key for a value that is neither null nor undefined: an own property of
\* an object, undefined otherwise (no input names a prototype property).
Get(v, key) ==
    IF v.t = "object" /\ key \in DOMAIN v.o THEN v.o[key] ELSE Undefined

\* obj[key] = v on a copy of the property map o.
Put(o, key, v) == [k \in DOMAIN o \cup {key} |-> IF k = key THEN v ELSE o[k]]

\* ------------------------------------------------------------------------
\* JSON.parse (demo.tsx line 88), over the JSON texts the inputs hold:
\* objects, arrays, strings without escapes, integers, true, false, null.
\* ------------------------------------------------------------------------

\* A parse step: failed, or the value read and the index after it.
Fail == [ok |-> FALSE]
Ok(v, p) == [ok |-> TRUE, v |-> v, p |-> p]

JsonSpace == {" ", "\t", "\n", "\r"}
Digits == {"0", "1", "2", "3", "4", "5", "6", "7", "8", "9"}
DigitVal(c) ==
    CASE c = "0" -> 0 [] c = "1" -> 1 [] c = "2" -> 2 [] c = "3" -> 3 [] c = "4" -> 4
      [] c = "5" -> 5 [] c = "6" -> 6 [] c = "7" -> 7 [] c = "8" -> 8 [] c = "9" -> 9

\* The character at p, or "" past the end.
At(s, p) == IF p >= 1 /\ p <= Len(s) THEN Char(s, p) ELSE ""

\* Whether word starts at index p of s.
WordAt(s, p, word) ==
    p + Len(word) - 1 <= Len(s) /\ SubSeq(s, p, p + Len(word) - 1) = word

RECURSIVE SkipSpace(_, _)
SkipSpace(s, p) == IF At(s, p) \in JsonSpace THEN SkipSpace(s, p + 1) ELSE p

\* A string literal whose opening quote is at p. A control character in it
\* is a syntax error; so is, here, an escape (no input holds one).
ParseString(s, p) ==
    LET Closed(k) ==
            IF k = 0 THEN Fail
            ELSE IF \E i \in p + 1..k - 1 : Char(s, i) \in {"\\", "\n", "\r", "\t", "\f"}
                 THEN Fail
                 ELSE Ok(Str(SubSeq(s, p + 1, k - 1)), k + 1)
    IN  Closed(IndexOf(s, "\"", p + 1))

RECURSIVE ScanDigits(_, _, _)
ScanDigits(s, p, n) ==
    IF At(s, p) \in Digits THEN ScanDigits(s, p + 1, 10 * n + DigitVal(At(s, p)))
    ELSE [n |-> n, p |-> p]

\* An integer: an optional minus, then 0 or a digit string without a leading
\* 0. A fraction or an exponent is not read: the text then fails at the end.
ParseNumber(s, p) ==
    LET Signed(neg, q, d) ==
            IF At(s, q) \notin Digits THEN Fail
            ELSE IF At(s, q) = "0" /\ d.p > q + 1 THEN Fail
            ELSE Ok(Num(IF neg THEN 0 - d.n ELSE d.n), d.p)
    IN  IF At(s, p) = "-" THEN Signed(TRUE, p + 1, ScanDigits(s, p + 1, 0))
        ELSE Signed(FALSE, p, ScanDigits(s, p, 0))

RECURSIVE ParseValue(_, _)
RECURSIVE ParseMembers(_, _, _)
RECURSIVE ParseElements(_, _, _)

\* The value that starts at or after p (leading space skipped).
ParseValue(s, p) ==
    LET Empty(q, close, v) ==
            IF At(s, q) = close THEN Ok(v, q + 1)
            ELSE IF close = "}" THEN ParseMembers(s, q, NoProps)
            ELSE ParseElements(s, q, <<>>)
        Value(q, c) ==
            CASE c = "{" -> Empty(SkipSpace(s, q + 1), "}", Obj(NoProps))
              [] c = "[" -> Empty(SkipSpace(s, q + 1), "]", Arr(<<>>))
              [] c = "\"" -> ParseString(s, q)
              [] c = "-" \/ c \in Digits -> ParseNumber(s, q)
              [] WordAt(s, q, "true") -> Ok(Bool(TRUE), q + 4)
              [] WordAt(s, q, "false") -> Ok(Bool(FALSE), q + 5)
              [] WordAt(s, q, "null") -> Ok(Null, q + 4)
              [] OTHER -> Fail
        Start(q) == Value(q, At(s, q))
    IN  Start(SkipSpace(s, p))

\* The members of an object from p on, o holding those read so far: a later
\* member of the same name replaces the earlier one.
ParseMembers(s, p, o) ==
    LET Added(next, members) ==
            IF At(s, next) = "," THEN ParseMembers(s, next + 1, members)
            ELSE IF At(s, next) = "}" THEN Ok(Obj(members), next + 1)
            ELSE Fail
        Value(name, v) ==
            IF v.ok THEN Added(SkipSpace(s, v.p), Put(o, name, v.v)) ELSE Fail
        Colon(name, colon) ==
            IF At(s, colon) = ":" THEN Value(name, ParseValue(s, colon + 1)) ELSE Fail
        Name(k) == IF k.ok THEN Colon(k.v.s, SkipSpace(s, k.p)) ELSE Fail
        Member(q) == IF At(s, q) = "\"" THEN Name(ParseString(s, q)) ELSE Fail
    IN  Member(SkipSpace(s, p))

\* The elements of an array from p on, a holding those read so far.
ParseElements(s, p, a) ==
    LET Added(next, elements) ==
            IF At(s, next) = "," THEN ParseElements(s, next + 1, elements)
            ELSE IF At(s, next) = "]" THEN Ok(Arr(elements), next + 1)
            ELSE Fail
        Element(v) == IF v.ok THEN Added(SkipSpace(s, v.p), Append(a, v.v)) ELSE Fail
    IN  Element(ParseValue(s, p))

\* JSON.parse(s): the value, or a SyntaxError (ok = FALSE) when s is not one
\* JSON text followed by nothing but space.
JSONparse(s) ==
    LET Whole(v) ==
            IF v.ok /\ SkipSpace(s, v.p) = Len(s) + 1 THEN [ok |-> TRUE, v |-> v.v]
            ELSE Fail
    IN  Whole(ParseValue(s, 1))

\* ------------------------------------------------------------------------
\* parsePatch and applyPatch
\* ------------------------------------------------------------------------

\* parsePatch(line): null for a blank line, a // line and a line JSON.parse
\* rejects; otherwise whatever value JSON.parse returns.
\* parsePatch with a comment marker stripped instead of tested for: what
\* follows the marker is parsed.
parsePatchOfComment(line) ==
    LET Caught(parsed) == IF parsed.ok THEN parsed.v ELSE Null
        Trimmed(trimmed) ==
            IF trimmed = "" THEN Null
            ELSE IF StartsWith(trimmed, "//")
                 THEN Caught(JSONparse(SubSeq(trimmed, 3, Len(trimmed))))
                 ELSE Caught(JSONparse(trimmed))
    IN  Trimmed(Trim(line))

parsePatch(line) ==
    LET Caught(parsed) == IF parsed.ok THEN parsed.v ELSE Null
        Trimmed(trimmed) ==
            IF trimmed = "" \/ StartsWith(trimmed, "//") THEN Null
            ELSE Caught(JSONparse(trimmed))
    IN  Trimmed(Trim(line))

\* The empty tree of lines 192 and 209.
EmptyTree == [root |-> Str(""), elements |-> NoProps]

\* path.slice("/elements/".length).split("/")[0]
ElementKey(path) == Split(SubSeq(path, Len("/elements/") + 1, Len(path)), "/")[1]

\* The outcome of a call: a returned value, or a thrown error of that name.
Return(v) == [threw |-> FALSE, v |-> v]
Throw(name) == [threw |-> TRUE, name |-> name]

\* applyPatch with line 105 merging the value into the element the key
\* holds: the entries the value lacks are kept.
applyPatchMerging(tree, patch) ==
    LET path == Get(patch, "path")
        op == Get(patch, "op")
        value == Get(patch, "value")
        Merged(old) ==
            IF old.t = "object" /\ value.t = "object"
            THEN Obj([k \in DOMAIN old.o \cup DOMAIN value.o |->
                        IF k \in DOMAIN value.o THEN value.o[k] ELSE old.o[k]])
            ELSE value
    IN  IF path = Str("/root") THEN Return([tree EXCEPT !.root = value])
        ELSE IF path.t # "string" THEN Throw("TypeError")
        ELSE IF StartsWith(path.s, "/elements/")
                /\ ElementKey(path.s) # ""
                /\ (op = Str("set") \/ op = Str("add"))
             THEN Return([tree EXCEPT !.elements =
                             Put(@, ElementKey(path.s),
                                 Merged(Get(Obj(tree.elements), ElementKey(path.s))))])
             ELSE Return(tree)

\* applyPatch with line 104 testing the key only: every op writes the
\* element.
applyPatchAnyOp(tree, patch) ==
    LET path == Get(patch, "path")
        value == Get(patch, "value")
    IN  IF path = Str("/root") THEN Return([tree EXCEPT !.root = value])
        ELSE IF path.t # "string" THEN Throw("TypeError")
        ELSE IF StartsWith(path.s, "/elements/") /\ ElementKey(path.s) # ""
             THEN Return([tree EXCEPT !.elements = Put(@, ElementKey(path.s), value)])
             ELSE Return(tree)

\* A returned tree, with the tree the caller gave as it is after the call.
Returned(v, given) == [threw |-> FALSE, v |-> v, given |-> given]

\* Line 95 as { ...tree }: only the top level is copied, and the new tree
\* shares its elements object with the given one.
SpreadTopLevel(tree) == [root |-> tree.root, elements |-> tree.elements, shares |-> {"elements"}]

\* Line 95, { ...tree, elements: { ...tree.elements } }: a new object with
\* the same root and a new elements object with the same entries; it shares
\* neither with the given tree.
Spread(tree) == [root |-> tree.root, elements |-> tree.elements, shares |-> {}]

\* applyPatch(tree, patch) for a truthy patch. patch.path.startsWith throws a
\* TypeError when patch.path is not a string (undefined has no properties,
\* and no other type has a startsWith method). The writes of lines 98 and
\* 105 go to newTree and to newTree.elements, and reach the given tree
\* where it shares that object.
applyPatch(tree, patch) ==
    LET path == Get(patch, "path")
        op == Get(patch, "op")
        value == Get(patch, "value")
        Write(newTree) ==
            IF path = Str("/root")
            THEN Returned([root |-> value, elements |-> newTree.elements],
                          IF "root" \in newTree.shares
                          THEN [tree EXCEPT !.root = value] ELSE tree)
            ELSE IF path.t # "string" THEN Throw("TypeError")
            ELSE IF StartsWith(path.s, "/elements/")
                    /\ ElementKey(path.s) # ""
                    /\ (op = Str("set") \/ op = Str("add"))
                 THEN Returned([root |-> newTree.root,
                                elements |-> Put(newTree.elements, ElementKey(path.s), value)],
                               IF "elements" \in newTree.shares
                               THEN [tree EXCEPT !.elements = Put(@, ElementKey(path.s), value)]
                               ELSE tree)
                 ELSE Returned([root |-> newTree.root, elements |-> newTree.elements], tree)
    IN  Write(Spread(tree))

\* ------------------------------------------------------------------------
\* The playback script
\* ------------------------------------------------------------------------

SIMULATION_PROMPT == "Create a contact form with name, email, and message"

FormElement(children) ==
    Obj([key |-> Str("form"), type |-> Str("Form"),
         props |-> Obj([title |-> Str("Contact Us")]), children |-> Arr(children)])

Field(key, type, label) ==
    Obj([key |-> Str(key), type |-> Str(type),
         props |-> Obj([label |-> Str(label), name |-> Str(key)])])

SubmitElement ==
    Obj([key |-> Str("submit"), type |-> Str("Button"),
         props |-> Obj([label |-> Str("Send Message"), action |-> Str("submit")])])

SIMULATION_STAGES == <<
    [tree |-> [root |-> Str("form"),
               elements |-> [form |-> FormElement(<<>>)]],
     stream |-> "{\"op\":\"set\",\"path\":\"/root\",\"value\":\"form\"}"],
    [tree |-> [root |-> Str("form"),
               elements |-> [form |-> FormElement(<<Str("name")>>),
                             name |-> Field("name", "Input", "Name")]],
     stream |-> "{\"op\":\"add\",\"path\":\"/elements/form\",\"value\":{\"key\":\"form\",\"type\":\"Form\",\"props\":{\"title\":\"Contact Us\"},\"children\":[\"name\"]}}"],
    [tree |-> [root |-> Str("form"),
               elements |-> [form |-> FormElement(<<Str("name"), Str("email")>>),
                             name |-> Field("name", "Input", "Name"),
                             email |-> Field("email", "Input", "Email")]],
     stream |-> "{\"op\":\"add\",\"path\":\"/elements/email\",\"value\":{\"key\":\"email\",\"type\":\"Input\",\"props\":{\"label\":\"Email\",\"name\":\"email\"}}}"],
    [tree |-> [root |-> Str("form"),
               elements |-> [form |-> FormElement(<<Str("name"), Str("email"), Str("message")>>),
                             name |-> Field("name", "Input", "Name"),
                             email |-> Field("email", "Input", "Email"),
                             message |-> Field("message", "Textarea", "Message")]],
     stream |-> "{\"op\":\"add\",\"path\":\"/elements/message\",\"value\":{\"key\":\"message\",\"type\":\"Textarea\",\"props\":{\"label\":\"Message\",\"name\":\"message\"}}}"],
    [tree |-> [root |-> Str("form"),
               elements |-> [form |-> FormElement(<<Str("name"), Str("email"), Str("message"), Str("submit")>>),
                             name |-> Field("name", "Input", "Name"),
                             email |-> Field("email", "Input", "Email"),
                             message |-> Field("message", "Textarea", "Message"),
                             submit |-> SubmitElement]],
     stream |-> "{\"op\":\"add\",\"path\":\"/elements/submit\",\"value\":{\"key\":\"submit\",\"type\":\"Button\",\"props\":{\"label\":\"Send Message\",\"action\":\"submit\"}}}"]
    >>

\* The stream lines of the first n stages.
StageLines(n) == [k \in 1..n |-> SIMULATION_STAGES[k].stream]

\* ------------------------------------------------------------------------
\* Bounds and inputs
\* ------------------------------------------------------------------------

\* The calls of handleSubmit that get past line 185 in one run of the full
\* component (Spec) and of the stream session on its own (SpecStream).
MaxSessions == 2
MaxStreamSessions == 1

\* The lines one run of the reducer on its own (SpecReducer) is given.
MaxPatches == 2

\* What the user types into the prompt input.
Prompts == {"", " ", "a form"}

RootLine == "{\"op\":\"set\",\"path\":\"/root\",\"value\":\"f\"}"
RootLine2 == "{\"op\":\"set\",\"path\":\"/root\",\"value\":\"g\"}"
FormLine == "{\"op\":\"add\",\"path\":\"/elements/f\",\"value\":{\"key\":\"f\",\"type\":\"Form\",\"props\":{}}}"

\* An element with a prop and a child, and a second value for the same key
\* that has neither.
ElementLine == "{\"op\":\"add\",\"path\":\"/elements/f\",\"value\":{\"key\":\"f\",\"type\":\"Form\",\"props\":{\"title\":\"T\"},\"children\":[\"g\"]}}"
ReplaceLine == "{\"op\":\"set\",\"path\":\"/elements/f\",\"value\":{\"key\":\"f\",\"type\":\"Card\",\"props\":{}}}"

\* Operations whose path is neither /root nor /elements/{key}.
FooLine == "{\"op\":\"set\",\"path\":\"/foo\",\"value\":\"x\"}"
EmptyKeyLine == "{\"op\":\"set\",\"path\":\"/elements/\",\"value\":\"x\"}"
DeeperLine == "{\"op\":\"set\",\"path\":\"/elements/f/props/title\",\"value\":\"x\"}"

\* An operation that is neither set nor add, JSON that is no operation, and
\* lines that are no JSON.
RemoveLine == "{\"op\":\"remove\",\"path\":\"/elements/f\"}"
NoFieldLine == "{}"
NumberLine == "123"
BlankLine == " \t"
CommentLine == " // {\"op\":\"set\",\"path\":\"/root\",\"value\":\"c\"}"
NotJsonLine == "not json {"

\* A root key that no element has and every object inherits.
ConstructorRootLine == "{\"op\":\"set\",\"path\":\"/root\",\"value\":\"constructor\"}"

\* An element at a second key, and an operation on /root that is neither set
\* nor add.
OtherElementLine == "{\"op\":\"add\",\"path\":\"/elements/g\",\"value\":{\"key\":\"g\",\"type\":\"Input\",\"props\":{\"label\":\"L\"}}}"
RootOpLine == "{\"op\":\"replace\",\"path\":\"/root\",\"value\":\"h\"}"

\* The lines of the reducer on its own (SpecReducer).
PatchLines == {RootLine, RootLine2, ElementLine, ReplaceLine, FooLine, EmptyKeyLine,
               DeeperLine, RemoveLine, NoFieldLine, NumberLine, "", BlankLine,
               CommentLine, NotJsonLine, ConstructorRootLine, OtherElementLine,
               RootOpLine}

\* The response bodies of the full component (Spec), and the lengths of the
\* chunks they come in: a chunk that ends inside a line and one that ends
\* right after its newline (the last chunk is what is left).
DemoBodies == {RootLine \o "\n" \o RootLine2}
DemoChunks == {30, 39}

\* The response bodies of the stream session on its own (SpecStream): lines
\* that end with \n or \r\n, an unterminated last line, blank, comment and
\* non-JSON lines, JSON lines that are not patches, a two-byte character and
\* a truncated last line.
StreamBodies == {
    RootLine \o "\n" \o FormLine \o "\n",
    " \n// c\nnot json {\n" \o RootLine,
    RootLine \o "\n{}\n" \o RootLine2 \o "\n",
    "123\n" \o RootLine \o "\n",
    FooLine \o "\n" \o RootLine \o "\n",
    "{\"op\":\"set\",\"path\":\"/root\",\"value\":\"<>\"}\r\n{\"op\":" }

\* Every length: a body is split at every place.
StreamChunks == 1..200

\* ------------------------------------------------------------------------
\* The transport: response bodies and TextDecoder
\* ------------------------------------------------------------------------

\* A response body is a string of bytes. An ASCII byte is written as its
\* character; LeadByte and ContByte stand for the two bytes 0xC3 0xA9 of one
\* two-byte UTF-8 character, which decodes to TwoByteChar. Replacement stands
\* for U+FFFD, which the decoder puts in place of a malformed sequence.
LeadByte == "<"
ContByte == ">"
TwoByteChar == "E"
Replacement == "?"

\* decoder.decode(bytes, { stream: true }) from index i on, with the lead byte
\* the decoder holds from the chunk before (pending, "" for none): the text
\* decoded and the lead byte held back for the next call. A run of ASCII
\* bytes is copied in one step.
RECURSIVE Decode(_, _, _, _)
Decode(bytes, i, pending, out) ==
    IF i > Len(bytes) THEN [text |-> out, pending |-> pending]
    ELSE LET b == Char(bytes, i)
             k == IndexIn(bytes, {LeadByte, ContByte}, i)
         IN  IF pending # ""
             THEN IF b = ContByte
                  THEN Decode(bytes, i + 1, "", out \o TwoByteChar)
                  ELSE Decode(bytes, i, "", out \o Replacement)
             ELSE IF k = 0
             THEN [text |-> out \o SubSeq(bytes, i, Len(bytes)), pending |-> ""]
             ELSE IF k > i THEN Decode(bytes, k, "", out \o SubSeq(bytes, i, k - 1))
             ELSE IF b = LeadByte THEN Decode(bytes, i + 1, LeadByte, out)
             ELSE Decode(bytes, i + 1, "", out \o Replacement)

\* Lines 215-217 without the carry: the text alone is split and what the
\* chunk before left in the buffer is lost.
FrameWithoutCarry(buffer, text) ==
    LET Popped(lines) == [lines |-> Front(lines), buffer |-> Last(lines)]
    IN  Popped(Split(text, "\n"))

\* Lines 215-217: the decoded text joins the buffer, the buffer is split at
\* the newlines, and the last piece is the new buffer.
Frame(buffer, text) ==
    LET Popped(lines) == [lines |-> Front(lines), buffer |-> Last(lines)]
    IN  Popped(Split(buffer \o text, "\n"))

\* The lines of the bodies, each with the value parsePatch gives it, worked
\* out once; Patch(line) is parsePatch(line).
Range(q) == {q[k] : k \in 1..Len(q)}
BodyLines == PatchLines \cup UNION {Range(Split(Decode(b, 1, "", "").text, "\n")) :
                                     b \in DemoBodies \cup StreamBodies}
Parsed == [line \in BodyLines |-> parsePatch(line)]
Patch(line) == IF line \in BodyLines THEN Parsed[line] ELSE parsePatch(line)

\* Lines 219-226 (and 230-235 for the one residual line): each line goes to
\* parsePatch; a truthy patch is applied to currentTree and published. st
\* holds currentTree, the lines published (out), the lines handed to
\* parsePatch (seen) and the name of the error applyPatch threw ("" for none),
\* which ends the loop.
RECURSIVE processLines(_, _)
processLines(lines, st) ==
    LET Applied(line, r) ==
            IF r.threw THEN [st EXCEPT !.seen = Append(@, line), !.threw = r.name]
            ELSE processLines(Tail(lines),
                              [st EXCEPT !.seen = Append(@, line), !.currentTree = r.v,
                                         !.out = Append(@, Trim(line))])
        Line(line, patch) ==
            IF ~Truthy(patch)
            THEN processLines(Tail(lines), [st EXCEPT !.seen = Append(@, line)])
            ELSE Applied(line, applyPatch(st.currentTree, patch))
    IN  IF lines = <<>> \/ st.threw # "" THEN st
        ELSE Line(Head(lines), Patch(Head(lines)))

\* The loop started on currentTree.
Process(lines, currentTree) ==
    processLines(lines, [currentTree |-> currentTree, out |-> <<>>, seen |-> <<>>, threw |-> ""])

\* Line 238 without its test: every error is reported.
ReportedWhateverItsName(name) == TRUE

\* Line 238: the errors the catch block reports with console.error.
Reported(name) == name # "AbortError"

\* ------------------------------------------------------------------------
\* The state of the Demo component
\* ------------------------------------------------------------------------

VARIABLES
    mode,           \* "simulation" | "interactive"
    phase,          \* "typing" | "streaming" | "complete"
    typedPrompt,
    userPrompt,
    stageIndex,     \* -1, or the 0-based index of the stage shown
    streamLines,
    tree,           \* Null, or [root, elements]
    isLoading,
    abortRef,       \* 0 for null, or the session whose AbortController it holds
    typing,         \* the interval of line 144: [on, i]
    typingPause,    \* the timeout of line 150 is pending
    streaming,      \* the interval of line 162: [on, i]
    streamingPause, \* the timeout of line 173 is pending
    sessions,       \* the calls of handleSubmit that got past line 185
    handed,         \* the lines the latest session handed to parsePatch
    delivered       \* the bytes the latest session has read

vars == <<mode, phase, typedPrompt, userPrompt, stageIndex, streamLines, tree, isLoading,
          abortRef, typing, typingPause, streaming, streamingPause, sessions, handed,
          delivered>>

display == <<mode, phase, typedPrompt, userPrompt, stageIndex, streamLines, tree>>
timers == <<typing, typingPause, streaming, streamingPause>>
stream == <<sessions, handed, delivered>>

\* One call of handleSubmit: where it is suspended (pc), its AbortController's
\* signal, the transport's body and how much of it was read, the decoder's
\* held byte, and the locals buffer and currentTree; once it has ended, the
\* name of the error it caught ("" for none), whether it reported it, the
\* call that threw it, and whether read() had reported the end of the body.
\*   pc: "idle" not called yet, "fetch" at line 195, "read" at line 212,
\*       "rejected" when the awaited promise was rejected by an abort and the
\*       catch block has not run yet, "done".
\*   thrower: "fetch" (line 195 rejects), "response" (lines 202 and 205),
\*       "read" (line 212 rejects), "applyPatch" (lines 222 and 232), "abort"
\*       (line 195 or 212 rejected by the abort signal).
IdleSession ==
    [pc |-> "idle", aborted |-> FALSE, body |-> "", pos |-> 0, pending |-> "",
     buffer |-> "", currentTree |-> EmptyTree, caught |-> "", logged |-> FALSE,
     thrower |-> "", eos |-> FALSE]

Sessions == 1..MaxSessions

Active(s) == sessions[s].pc \in {"fetch", "read", "rejected"}

\* A rejected await resumes in a microtask, which runs before the next event,
\* timer or transport callback.
\* An event loop that runs a macrotask whatever microtasks are queued.
MicrotasksNeverAwaited == TRUE

MicrotasksDrained == \A s \in Sessions : sessions[s].pc # "rejected"

\* controller.abort() of the controller abortRef holds: the signal is set and
\* the fetch or read the session awaits is rejected with an AbortError.
\* An abort that only raises the flag of the signal: what the session awaits
\* is not rejected.
AbortWithoutReject(ss, ref) ==
    IF ref = 0 THEN ss ELSE [ss EXCEPT ![ref].aborted = TRUE]

Abort(ss, ref) ==
    IF ref = 0 THEN ss
    ELSE [ss EXCEPT ![ref].aborted = TRUE,
                    ![ref].pc = IF @ \in {"fetch", "read"} THEN "rejected" ELSE @]

\* Lines 237-243 for a session that ends: catch (name # "") reports the error
\* unless it is an AbortError; the locals are gone.
Ended(sess, name, thrower) ==
    [IdleSession EXCEPT !.pc = "done", !.aborted = sess.aborted, !.caught = name,
                        !.logged = name # "" /\ Reported(name),
                        !.thrower = thrower, !.eos = sess.eos]

\* The effects without their cleanup (lines 154 and 181): an interval that
\* runs keeps running when mode or phase change.
EffectsWithoutCleanup(newMode, newPhase) ==
    IF newMode = mode /\ newPhase = phase THEN UNCHANGED <<typing, streaming>>
    ELSE /\ typing' = IF newMode = "simulation" /\ newPhase = "typing"
                       THEN [on |-> TRUE, i |-> 0] ELSE typing
         /\ streaming' = IF newMode = "simulation" /\ newPhase = "streaming"
                          THEN [on |-> TRUE, i |-> 0] ELSE streaming

\* The effects of lines 140-155 and 158-182 after a render with this mode and
\* phase: when either changed, both intervals are cleared, and the one whose
\* condition holds is started from i = 0.
Effects(newMode, newPhase) ==
    IF newMode = mode /\ newPhase = phase THEN UNCHANGED <<typing, streaming>>
    ELSE /\ typing' = [on |-> newMode = "simulation" /\ newPhase = "typing", i |-> 0]
         /\ streaming' = [on |-> newMode = "simulation" /\ newPhase = "streaming", i |-> 0]

Init ==
    /\ mode = "simulation"
    /\ phase = "typing"
    /\ typedPrompt = ""
    /\ userPrompt = ""
    /\ stageIndex = -1
    /\ streamLines = <<>>
    /\ tree = Null
    /\ isLoading = FALSE
    /\ abortRef = 0
    /\ typing = [on |-> TRUE, i |-> 0]
    /\ typingPause = FALSE
    /\ streaming = [on |-> FALSE, i |-> 0]
    /\ streamingPause = FALSE
    /\ sessions = [s \in Sessions |-> IdleSession]
    /\ handed = <<>>
    /\ delivered = ""

\* ------------------------------------------------------------------------
\* Playback
\* ------------------------------------------------------------------------

\* The interval callback of lines 144-152.
typingTick ==
    /\ MicrotasksDrained
    /\ typing.on
    /\ IF typing.i < Len(SIMULATION_PROMPT)
       THEN /\ typedPrompt' = SubSeq(SIMULATION_PROMPT, 1, typing.i + 1)
            /\ typing' = [typing EXCEPT !.i = @ + 1]
            /\ UNCHANGED typingPause
       ELSE /\ typing' = [typing EXCEPT !.on = FALSE]
            /\ typingPause' = TRUE
            /\ UNCHANGED typedPrompt
    /\ UNCHANGED <<mode, phase, userPrompt, stageIndex, streamLines, tree, isLoading,
                   abortRef, streaming, streamingPause, stream>>

\* The timeout callback of line 150.
typingTimeout ==
    /\ MicrotasksDrained
    /\ typingPause
    /\ typingPause' = FALSE
    /\ phase' = "streaming"
    /\ Effects(mode, "streaming")
    /\ UNCHANGED <<mode, typedPrompt, userPrompt, stageIndex, streamLines, tree, isLoading,
                   abortRef, streamingPause, stream>>

\* The interval callback of lines 162-179 without line 168: the stage's
\* tree is not published.
streamingTickWithoutTree ==
    /\ MicrotasksDrained
    /\ streaming.on
    /\ IF streaming.i < Len(SIMULATION_STAGES)
       THEN /\ stageIndex' = streaming.i
            /\ streamLines' = Append(streamLines, SIMULATION_STAGES[streaming.i + 1].stream)
            /\ streaming' = [streaming EXCEPT !.i = @ + 1]
            /\ UNCHANGED <<tree, streamingPause>>
       ELSE /\ streaming' = [streaming EXCEPT !.on = FALSE]
            /\ streamingPause' = TRUE
            /\ UNCHANGED <<stageIndex, streamLines, tree>>
    /\ UNCHANGED <<mode, phase, typedPrompt, userPrompt, isLoading, abortRef, typing,
                   typingPause, stream>>

\* The interval callback of lines 162-179.
streamingTick ==
    /\ MicrotasksDrained
    /\ streaming.on
    /\ IF streaming.i < Len(SIMULATION_STAGES)
       THEN /\ stageIndex' = streaming.i
            /\ streamLines' = Append(streamLines, SIMULATION_STAGES[streaming.i + 1].stream)
            /\ tree' = SIMULATION_STAGES[streaming.i + 1].tree
            /\ streaming' = [streaming EXCEPT !.i = @ + 1]
            /\ UNCHANGED streamingPause
       ELSE /\ streaming' = [streaming EXCEPT !.on = FALSE]
            /\ streamingPause' = TRUE
            /\ UNCHANGED <<stageIndex, streamLines, tree>>
    /\ UNCHANGED <<mode, phase, typedPrompt, userPrompt, isLoading, abortRef, typing,
                   typingPause, stream>>

\* The timeout callback of lines 173-177.
streamingTimeout ==
    /\ MicrotasksDrained
    /\ streamingPause
    /\ streamingPause' = FALSE
    /\ phase' = "complete"
    /\ mode' = "interactive"
    /\ userPrompt' = ""
    /\ Effects("interactive", "complete")
    /\ UNCHANGED <<typedPrompt, stageIndex, streamLines, tree, isLoading, abortRef,
                   typingPause, stream>>

\* A stopGeneration that also empties the log and the tree.
stopCallResetting ==
    /\ sessions' = Abort(sessions, abortRef)
    /\ IF mode = "simulation"
       THEN /\ mode' = "interactive"
            /\ phase' = "complete"
            /\ typedPrompt' = SIMULATION_PROMPT
            /\ userPrompt' = ""
            /\ Effects("interactive", "complete")
       ELSE UNCHANGED <<mode, phase, typedPrompt, userPrompt, typing, streaming>>
    /\ isLoading' = FALSE
    /\ streamLines' = <<>>
    /\ tree' = Null
    /\ UNCHANGED <<stageIndex, abortRef, typingPause, streamingPause, handed, delivered>>

\* Lines 127-137: one call of stopGeneration, whoever makes it.
stopCall ==
    /\ sessions' = Abort(sessions, abortRef)
    /\ IF mode = "simulation"
       THEN /\ mode' = "interactive"
            /\ phase' = "complete"
            /\ typedPrompt' = SIMULATION_PROMPT
            /\ userPrompt' = ""
            /\ Effects("interactive", "complete")
       ELSE UNCHANGED <<mode, phase, typedPrompt, userPrompt, typing, streaming>>
    /\ isLoading' = FALSE
    /\ UNCHANGED <<stageIndex, streamLines, tree, abortRef, typingPause, streamingPause,
                   handed, delivered>>

\* A click of the Stop button, which is rendered in simulation mode and
\* while loading (line 354) and calls stopGeneration.
stopGeneration ==
    /\ MicrotasksDrained
    /\ mode = "simulation" \/ isLoading
    /\ stopCall

\* ------------------------------------------------------------------------
\* The stream session
\* ------------------------------------------------------------------------

\* onChange of the prompt input (line 345), which is rendered in interactive
\* mode and disabled while loading.
onChange(value) ==
    /\ MicrotasksDrained
    /\ mode = "interactive"
    /\ ~isLoading
    /\ value # userPrompt
    /\ userPrompt' = value
    /\ UNCHANGED <<mode, phase, typedPrompt, stageIndex, streamLines, tree, isLoading,
                   abortRef, timers, stream>>

\* handleSubmit without the isLoading test of line 185: a call while a
\* session is loading gets to line 187, aborts it and starts the next.
handleSubmitWhileLoading(limit) ==
    /\ MicrotasksDrained
    /\ mode = "interactive"
    /\ Trim(userPrompt) # ""
    /\ \E s \in 1..limit :
          /\ sessions[s].pc = "idle"
          /\ \A r \in 1..limit : r < s => sessions[r].pc # "idle"
          /\ sessions' = [Abort(sessions, abortRef) EXCEPT ![s].pc = "fetch"]
          /\ abortRef' = s
    /\ isLoading' = TRUE
    /\ streamLines' = <<>>
    /\ tree' = EmptyTree
    /\ handed' = <<>>
    /\ delivered' = ""
    /\ UNCHANGED <<mode, phase, typedPrompt, userPrompt, stageIndex, timers>>

\* handleSubmit from line 184 to its first await at line 195, on a submit of
\* the form (line 339), which is rendered in interactive mode. Line 185 is
\* the guard: the call returns and changes nothing otherwise. At most limit
\* calls get past it.
handleSubmit(limit) ==
    /\ MicrotasksDrained
    /\ mode = "interactive"
    /\ Trim(userPrompt) # ""
    /\ ~isLoading
    /\ \E s \in 1..limit :
          /\ sessions[s].pc = "idle"
          /\ \A r \in 1..limit : r < s => sessions[r].pc # "idle"
          /\ sessions' = [Abort(sessions, abortRef) EXCEPT ![s].pc = "fetch"]
          /\ abortRef' = s
    /\ isLoading' = TRUE
    /\ streamLines' = <<>>
    /\ tree' = EmptyTree
    /\ handed' = <<>>
    /\ delivered' = ""
    /\ UNCHANGED <<mode, phase, typedPrompt, userPrompt, stageIndex, timers>>

\* Lines 237-240 without the finally block of lines 241-243: loading goes
\* on after the error.
catchWithoutFinally(s, name, thrower) ==
    /\ sessions' = [sessions EXCEPT ![s] = Ended(@, name, thrower)]
    /\ UNCHANGED isLoading

\* Lines 237-243 with the error the try block threw.
catch(s, name, thrower) ==
    /\ sessions' = [sessions EXCEPT ![s] = Ended(@, name, thrower)]
    /\ isLoading' = FALSE

\* The call that threw the error a loop ended on.
Thrower(st) == IF st.threw # "" THEN "applyPatch" ELSE ""

\* fetch resolves with a success status and a body: lines 202-212.
fetchResolves(s, bodies) ==
    /\ MicrotasksDrained
    /\ sessions[s].pc = "fetch"
    /\ \E body \in bodies :
          sessions' = [sessions EXCEPT ![s].pc = "read", ![s].body = body]
    /\ UNCHANGED <<display, isLoading, abortRef, timers, handed, delivered>>

\* fetch resolves with a failure status (line 202) or without a body (line
\* 205), or rejects with a network error: the catch block gets an Error or a
\* TypeError.
fetchFails(s) ==
    /\ MicrotasksDrained
    /\ sessions[s].pc = "fetch"
    /\ \/ catch(s, "TypeError", "fetch")
       \/ catch(s, "Error", "response")
    /\ UNCHANGED <<display, abortRef, timers, handed, delivered>>

\* setTree and setStreamLines for the lines the loop st published.
\* A publication that coalesces: of the lines of one chunk only the last
\* reaches the log.
publishCoalesced(st) ==
    /\ handed' = handed \o st.seen
    /\ streamLines' = streamLines \o (IF st.out # <<>> THEN <<Last(st.out)>> ELSE <<>>)
    /\ tree' = IF st.out # <<>> THEN st.currentTree ELSE tree

publish(st) ==
    /\ handed' = handed \o st.seen
    /\ streamLines' = streamLines \o st.out
    /\ tree' = IF st.out # <<>> THEN st.currentTree ELSE tree

\* reader.read() resolves with the next n bytes of the body: lines 215-226.
readChunk(s, n) ==
    /\ MicrotasksDrained
    /\ sessions[s].pc = "read"
    /\ sessions[s].pos + n <= Len(sessions[s].body)
    /\ \E chunk \in {SubSeq(sessions[s].body, sessions[s].pos + 1, sessions[s].pos + n)} :
       \E text \in {Decode(chunk, 1, sessions[s].pending, "")} :
       \E framed \in {Frame(sessions[s].buffer, text.text)} :
       \E st \in {Process(framed.lines, sessions[s].currentTree)} :
          /\ delivered' = delivered \o chunk
          /\ publish(st)
          /\ IF st.threw # ""
             THEN catch(s, st.threw, Thrower(st))
             ELSE /\ sessions' = [sessions EXCEPT ![s].pos = @ + n,
                                                  ![s].pending = text.pending,
                                                  ![s].buffer = framed.buffer,
                                                  ![s].currentTree = st.currentTree]
                  /\ UNCHANGED isLoading
    /\ UNCHANGED <<mode, phase, typedPrompt, userPrompt, stageIndex, abortRef, timers>>

\* The final flush without the test of line 229: the buffer is parsed
\* whatever it holds.
ResidualWhateverItHolds(buffer) == <<buffer>>

\* The lines of the final flush, lines 229-236: the buffer when it is not
\* blank.
Residual(buffer) == IF Trim(buffer) # "" THEN <<buffer>> ELSE <<>>

\* reader.read() resolves with done: lines 213 and 229-243.
readDone(s) ==
    /\ MicrotasksDrained
    /\ sessions[s].pc = "read"
    /\ sessions[s].pos = Len(sessions[s].body)
    /\ \E st \in {Process(Residual(sessions[s].buffer), sessions[s].currentTree)} :
          /\ publish(st)
          /\ sessions' = [sessions EXCEPT
                             ![s] = Ended([@ EXCEPT !.eos = TRUE], st.threw, Thrower(st))]
          /\ isLoading' = FALSE
    /\ UNCHANGED <<mode, phase, typedPrompt, userPrompt, stageIndex, abortRef, timers,
                   delivered>>

\* reader.read() rejects with a network error.
readFails(s) ==
    /\ MicrotasksDrained
    /\ sessions[s].pc = "read"
    /\ catch(s, "TypeError", "read")
    /\ UNCHANGED <<display, abortRef, timers, handed, delivered>>

\* The microtask of a session whose await an abort rejected: lines 237-243
\* with the AbortError.
abortCaught(s) ==
    /\ sessions[s].pc = "rejected"
    /\ catch(s, "AbortError", "abort")
    /\ UNCHANGED <<display, abortRef, timers, handed, delivered>>

\* ------------------------------------------------------------------------
\* Specifications
\* ------------------------------------------------------------------------

\* The lengths the next chunk can have: each of sizes, or what is left of
\* the body when that is less.
ChunkLengths(s, sizes) ==
    LET left == Len(sessions[s].body) - sessions[s].pos
    IN  {IF n < left THEN n ELSE left : n \in sizes} \ {0}

Transport(bodies, sizes) ==
    \E s \in Sessions :
        \/ fetchResolves(s, bodies)
        \/ fetchFails(s)
        \/ \E n \in ChunkLengths(s, sizes) : readChunk(s, n)
        \/ readDone(s)
        \/ readFails(s)
        \/ abortCaught(s)

\* The component from its mount on.
Next ==
    \/ typingTick
    \/ typingTimeout
    \/ streamingTick
    \/ streamingTimeout
    \/ stopGeneration
    \/ \E value \in Prompts : onChange(value)
    \/ handleSubmit(MaxSessions)
    \/ Transport(DemoBodies, DemoChunks)

Spec == Init /\ [][Next]_vars

\* The stream session on its own: the component once the playback has run to
\* its end, with every body split at every place.
InitStream ==
    /\ mode = "interactive"
    /\ phase = "complete"
    /\ typedPrompt = SIMULATION_PROMPT
    /\ userPrompt = ""
    /\ stageIndex = Len(SIMULATION_STAGES) - 1
    /\ streamLines = StageLines(Len(SIMULATION_STAGES))
    /\ tree = SIMULATION_STAGES[Len(SIMULATION_STAGES)].tree
    /\ isLoading = FALSE
    /\ abortRef = 0
    /\ typing = [on |-> FALSE, i |-> 0]
    /\ typingPause = FALSE
    /\ streaming = [on |-> FALSE, i |-> 0]
    /\ streamingPause = FALSE
    /\ sessions = [s \in Sessions |-> IdleSession]
    /\ handed = <<>>
    /\ delivered = ""

NextStream ==
    \/ stopGeneration
    \/ \E value \in Prompts : onChange(value)
    \/ handleSubmit(MaxStreamSessions)
    \/ Transport(StreamBodies, StreamChunks)

SpecStream == InitStream /\ [][NextStream]_vars

\* The reducer on its own: a session that has started to read, as after
\* handleSubmit and fetchResolves, with the body left open: its lines are
\* any lines of PatchLines, given one at a time.
InitReducer ==
    /\ mode = "interactive"
    /\ phase = "complete"
    /\ typedPrompt = SIMULATION_PROMPT
    /\ userPrompt = "a form"
    /\ stageIndex = Len(SIMULATION_STAGES) - 1
    /\ streamLines = <<>>
    /\ tree = EmptyTree
    /\ isLoading = TRUE
    /\ abortRef = 1
    /\ typing = [on |-> FALSE, i |-> 0]
    /\ typingPause = FALSE
    /\ streaming = [on |-> FALSE, i |-> 0]
    /\ streamingPause = FALSE
    /\ sessions = [s \in Sessions |->
                     IF s = 1 THEN [IdleSession EXCEPT !.pc = "read"] ELSE IdleSession]
    /\ handed = <<>>
    /\ delivered = ""

\* Lines 220-225 for one line.
forLine(s, line) ==
    /\ sessions[s].pc = "read"
    /\ Len(handed) < MaxPatches
    /\ \E st \in {Process(<<line>>, sessions[s].currentTree)} :
          /\ publish(st)
          /\ IF st.threw # ""
             THEN catch(s, st.threw, Thrower(st))
             ELSE /\ sessions' = [sessions EXCEPT ![s].currentTree = st.currentTree]
                  /\ UNCHANGED isLoading
    /\ UNCHANGED <<mode, phase, typedPrompt, userPrompt, stageIndex, abortRef, timers,
                   delivered>>

NextReducer == \E line \in PatchLines : forLine(1, line)

SpecReducer == InitReducer /\ [][NextReducer]_vars

\* ------------------------------------------------------------------------
\* Chunk boundaries (SpecStream)
\* ------------------------------------------------------------------------

\* The session given bytes as one chunk, and then the end of the body when
\* eos: the lines handed to parsePatch (seen), the lines published (out), the
\* running tree, and the error that ended it.
InOneChunk(bytes, eos) ==
    LET Flushed(buffer, st) ==
            IF eos /\ st.threw = "" THEN processLines(Residual(buffer), st) ELSE st
        Framed(framed) == Flushed(framed.buffer, Process(framed.lines, EmptyTree))
    IN  Framed(Frame("", Decode(bytes, 1, "", "").text))

\* What the component shows of a loop that started on the empty tree.
Shown(st) ==
    [handed |-> st.seen, streamLines |-> st.out,
     tree |-> IF st.out # <<>> THEN st.currentTree ELSE EmptyTree]

\* C1: however the bytes read so far were split into chunks, the lines the
\* session has handed to parsePatch, the stream-line log and the tree are
\* those of the same bytes read as one chunk; once read() has reported the
\* end of the body, this includes the residual line, so the final tree and
\* the final log do not depend on the chunk boundaries either.
ChunkBoundaryIndependence ==
    abortRef # 0 =>
        [handed |-> handed, streamLines |-> streamLines, tree |-> tree]
            = Shown(InOneChunk(delivered, sessions[abortRef].eos))

\* A chunk has ended inside a line, after a line of an earlier chunk was
\* handed to parsePatch and published.
ChunkEndedInsideLine ==
    /\ abortRef # 0
    /\ sessions[abortRef].pc = "read"
    /\ sessions[abortRef].buffer # ""
    /\ handed # <<>>
    /\ streamLines # <<>>

\* ------------------------------------------------------------------------
\* Malformed lines (SpecStream)
\* ------------------------------------------------------------------------

\* A line with an operation as the specification describes one: an object
\* with a string op, a path that is /root or /elements/{key}, and a value.
WellFormed(patch) ==
    /\ patch.t = "object"
    /\ Get(patch, "op").t = "string"
    /\ Get(patch, "path").t = "string"
    /\ \/ Get(patch, "path").s = "/root"
       \/ /\ StartsWith(Get(patch, "path").s, "/elements/")
          /\ Len(Split(Get(patch, "path").s, "/")) = 3
          /\ Split(Get(patch, "path").s, "/")[3] # ""
    /\ "value" \in DOMAIN patch.o

Malformed(line) == Trim(line) # "" /\ ~WellFormed(Patch(line))

\* C2: no session ends on an error thrown while it applies a malformed
\* line: such a line raises nothing and the lines after it are processed.
MalformedLineNeverEndsSession ==
    \A s \in Sessions :
        ~(/\ s = abortRef
          /\ sessions[s].pc = "done"
          /\ sessions[s].thrower = "applyPatch"
          /\ handed # <<>>
          /\ Malformed(Last(handed)))

\* ------------------------------------------------------------------------
\* Sessions and cancellation (Spec, SpecStream)
\* ------------------------------------------------------------------------

\* A call of handleSubmit can still get a session.
SessionLeft == \E s \in Sessions : sessions[s].pc = "idle"

CancellationIsNotFailure ==
    \A s \in Sessions :
        /\ sessions[s].thrower = "abort"
              => sessions[s].aborted /\ sessions[s].caught = "AbortError"
                 /\ ~sessions[s].logged
        /\ sessions[s].thrower \in {"fetch", "response", "read"} => sessions[s].logged
        /\ sessions[s].aborted => sessions[s].pc \in {"rejected", "done"}
        /\ s = abortRef /\ sessions[s].pc \in {"rejected", "done"} => ~isLoading

\* A session was cancelled after it had published a line, and has ended.
CancelledWhileReading ==
    /\ abortRef # 0
    /\ sessions[abortRef].pc = "done"
    /\ sessions[abortRef].thrower = "abort"
    /\ streamLines # <<>>

\* ------------------------------------------------------------------------
\* Playback (Spec)
\* ------------------------------------------------------------------------

\* Line 253: the tree renderPreview shows.
DisplayedTree ==
    IF mode = "simulation"
    THEN IF stageIndex >= 0 THEN SIMULATION_STAGES[stageIndex + 1].tree ELSE Undefined
    ELSE tree

NoSession == \A s \in Sessions : sessions[s].pc = "idle"

\* C4: once playback was cancelled the phase is complete and stays so: no
\* pause timeout that was pending at the cancellation changes it later.
PhaseStaysComplete == mode = "interactive" => phase = "complete"

\* The stages published after k ticks of the streaming interval.
PublishedStages(k) ==
    /\ stageIndex = k - 1
    /\ streamLines = StageLines(k)
    /\ tree = IF k = 0 THEN Null ELSE SIMULATION_STAGES[k].tree

\* C5: in a playback that was not cancelled, after k ticks of the streaming
\* interval the stage index is k - 1, the tree is that stage's and the log
\* is the first k stage lines, k is at most five, and the pause starts only
\* after the fifth stage; the pause timeout then leaves the fifth stage
\* shown, in interactive mode and phase complete.
PlaybackPublishesFiveStages ==
    /\ [](mode = "simulation" =>
            /\ phase \in {"typing", "streaming"}
            /\ phase = "typing" => streaming.i = 0
            /\ streaming.i \in 0..Len(SIMULATION_STAGES)
            /\ PublishedStages(streaming.i)
            /\ streamingPause => streaming.i = Len(SIMULATION_STAGES))
    /\ [][mode = "simulation" /\ streamingPause /\ ~streamingPause'
             => /\ mode' = "interactive"
                /\ phase' = "complete"
                /\ PublishedStages(Len(SIMULATION_STAGES))']_vars

\* The fifth stage is published and the pause after it runs.
PauseAfterFifthStage ==
    /\ mode = "simulation"
    /\ streamingPause
    /\ stageIndex = Len(SIMULATION_STAGES) - 1

\* C6: when playback has ended, cancelled or not, and no session has been
\* started, the tree shown is the tree of the last stage published and the
\* log is the stage lines up to it; the step that ends playback and every
\* later step that starts no session leave the stage index, the tree shown
\* and the log as they are.
DisplayFrozenAtStage ==
    /\ [](mode = "interactive" /\ NoSession /\ stageIndex >= 0 =>
            /\ DisplayedTree = SIMULATION_STAGES[stageIndex + 1].tree
            /\ streamLines = StageLines(stageIndex + 1))
    /\ [][mode' = "interactive" /\ NoSession' /\ stageIndex >= 0
             => /\ stageIndex' = stageIndex
                /\ streamLines' = streamLines
                /\ DisplayedTree' = DisplayedTree]_vars

\* Playback was cancelled after the third stage, and the user has typed a
\* prompt since.
CancelledAfterThirdStage ==
    /\ mode = "interactive"
    /\ NoSession
    /\ stageIndex = 2
    /\ userPrompt = "a form"

\* ------------------------------------------------------------------------
\* The reducer (SpecReducer)
\* ------------------------------------------------------------------------

\* The segments of an operation's path after the leading slash, <<>> when
\* the operation has no string for a path.
Segments(patch) ==
    IF Get(patch, "path").t = "string" /\ StartsWith(Get(patch, "path").s, "/")
    THEN Tail(Split(Get(patch, "path").s, "/"))
    ELSE <<>>

\* The path is /elements/{key} with a key that is not empty.
OnElement(patch) ==
    /\ Len(Segments(patch)) = 2
    /\ Segments(patch)[1] = "elements"
    /\ Segments(patch)[2] # ""

\* The display before the last line handed to parsePatch was processed.
Before == Shown(Process(Front(handed), EmptyTree))

\* C7: after a set or add on /elements/{key} the element at that key is the
\* operation's value, whatever the key held before: nothing of an earlier
\* element is left in it.
SetReplacesElement ==
    handed # <<>> /\ OnElement(Patch(Last(handed)))
                  /\ Get(Patch(Last(handed)), "op") \in {Str("set"), Str("add")}
        => Get(Obj(tree.elements), Segments(Patch(Last(handed)))[2])
               = Get(Patch(Last(handed)), "value")

\* An element with a title and a child was replaced by one without them.
ElementReplaced ==
    /\ handed = <<ElementLine, ReplaceLine>>
    /\ Before.tree.elements["f"] = Get(Patch(ElementLine), "value")
    /\ tree.elements["f"] = Get(Patch(ReplaceLine), "value")

\* C8: an operation with a path that is neither /root nor /elements/{key}
\* leaves the tree as it was, root and elements.
OtherPathIgnored ==
    handed # <<>> /\ Patch(Last(handed)).t = "object"
                  /\ Get(Patch(Last(handed)), "path").t = "string"
                  /\ Get(Patch(Last(handed)), "path") # Str("/root")
                  /\ ~OnElement(Patch(Last(handed)))
        => tree = Before.tree

\* Lines that are no patch: empty, blank, a comment, not JSON.
NotPatches == {"", BlankLine, CommentLine, NotJsonLine}

\* C9: parsePatch gives null for a line that is empty or blank, that starts
\* with // once trimmed, or that is not JSON, and the session that processes
\* it goes on with the tree and the log it had and no error.
NotAPatchSkipped ==
    handed # <<>> /\ Last(handed) \in NotPatches
        => /\ parsePatch(Last(handed)) = Null
           /\ tree = Before.tree
           /\ streamLines = Before.streamLines
           /\ sessions[1].pc = "read"
           /\ sessions[1].currentTree = tree
           /\ isLoading

\* A line that is not JSON came after a line that set the root.
NotJsonAfterRoot ==
    /\ handed = <<RootLine, NotJsonLine>>
    /\ tree.root = Str("f")
    /\ streamLines = <<RootLine>>

\* ------------------------------------------------------------------------
\* Transport faults (Spec)
\* ------------------------------------------------------------------------

\* C11: a session that ended on a failure status (or a response without a
\* body) has read no byte and handed no line to parsePatch, the tree is the
\* empty tree of its start and the log is empty; the error was caught and
\* reported, loading is off, and a submit of a prompt that is not blank is
\* accepted again.
BadStatusFailsWithoutBody ==
    abortRef # 0 /\ sessions[abortRef].thrower = "response" =>
        /\ sessions[abortRef].pc = "done"
        /\ delivered = ""
        /\ handed = <<>>
        /\ tree = EmptyTree
        /\ streamLines = <<>>
        /\ sessions[abortRef].caught = "Error"
        /\ sessions[abortRef].logged
        /\ ~isLoading
        /\ Trim(userPrompt) # "" /\ SessionLeft => ENABLED handleSubmit(MaxSessions)

\* A session has failed on its status, and the prompt it was started with
\* can be submitted again.
FailedOnStatus ==
    /\ abortRef # 0
    /\ sessions[abortRef].thrower = "response"
    /\ Trim(userPrompt) # ""
    /\ SessionLeft

\* ------------------------------------------------------------------------
\* The residual (SpecStream)
\* ------------------------------------------------------------------------

\* The text read so far, cut at its newlines: the last piece is the text
\* after the last newline.
DeliveredPieces == Split(Decode(delivered, 1, "", "").text, "\n")

\* C12: before read() has reported the end of the body, the lines handed to
\* parsePatch are among the complete lines of the text read so far, and the
\* text after the last newline waits in the buffer; once it has, that text
\* is handed to parsePatch exactly when it is not blank, once and as the
\* last line, and when it is no patch the session ends with nothing caught
\* or reported; a session that was cancelled or that failed has not seen
\* the end of the body.
ResidualOnlyAtEnd ==
    abortRef # 0 =>
        \E pieces \in {DeliveredPieces} :
            /\ ~sessions[abortRef].eos
                  => /\ Len(handed) < Len(pieces)
                     /\ handed = SubSeq(pieces, 1, Len(handed))
            /\ sessions[abortRef].pc = "read"
                  => /\ handed = Front(pieces)
                     /\ sessions[abortRef].buffer = Last(pieces)
            /\ sessions[abortRef].eos
                  => /\ sessions[abortRef].pc = "done"
                     /\ handed = IF Trim(Last(pieces)) # "" THEN pieces ELSE Front(pieces)
                     /\ Trim(Last(pieces)) # "" /\ Patch(Last(pieces)) = Null
                           => sessions[abortRef].caught = "" /\ ~sessions[abortRef].logged
            /\ sessions[abortRef].thrower \in {"abort", "fetch", "response", "read"}
                  => ~sessions[abortRef].eos

\* The body ended inside a line: the piece was handed to parsePatch, which
\* gave null, and the session ended without a report.
TruncatedResidualDropped ==
    /\ abortRef # 0
    /\ sessions[abortRef].eos
    /\ Len(handed) = 2
    /\ Last(handed) = "{\"op\":"
    /\ Len(streamLines) = 1
    /\ sessions[abortRef].caught = ""

\* ------------------------------------------------------------------------
\* Repeated cancellation (Spec)
\* ------------------------------------------------------------------------

\* C13: in every state, a call of stopGeneration leaves the component in
\* interactive mode and not loading; and in every state in interactive mode
\* and not loading (the session completed, cancelled or failed, or a first
\* call was just made and its rejection is still to be caught) a call of
\* stopGeneration leaves mode, phase, tree, log and loading flag as they
\* are.
StopIsIdempotent ==
    /\ ~ENABLED (stopCall /\ ~(mode' = "interactive" /\ ~isLoading'))
    /\ mode = "interactive" /\ ~isLoading
          => ~ENABLED (stopCall /\ <<mode, phase, tree, streamLines, isLoading>>'
                                      # <<mode, phase, tree, streamLines, isLoading>>)

\* stopGeneration was just called on a reading session that had published
\* a line: its rejection is still to be caught.
StoppedJustNow ==
    /\ abortRef # 0
    /\ sessions[abortRef].pc = "rejected"
    /\ sessions[abortRef].aborted
    /\ streamLines # <<>>
    /\ mode = "interactive"
    /\ ~isLoading

\* ------------------------------------------------------------------------
\* The preview (SpecReducer)
\* ------------------------------------------------------------------------

\* The properties every object, array, string and function inherits from
\* Object.prototype: each is a function. (__proto__, an accessor, is left
\* out: no input names it.)
ObjectPrototype ==
    {"constructor", "hasOwnProperty", "isPrototypeOf", "propertyIsEnumerable",
     "toLocaleString", "toString", "valueOf", "__defineGetter__", "__defineSetter__",
     "__lookupGetter__", "__lookupSetter__"}
Function == [t |-> "function"]

\* v[key] as lines 255-298 read it, for v neither null nor undefined: an own
\* property of an object, else an inherited one, else undefined.
Lookup(v, key) ==
    IF v.t = "object" /\ key \in DOMAIN v.o THEN v.o[key]
    ELSE IF key \in ObjectPrototype THEN Function
    ELSE Undefined

\* The property key a value is converted to in obj[v], for the values the
\* trees of the inputs hold as root or as child key.
PropertyKey(v) ==
    CASE v.t = "string" -> v.s
      [] v.t = "undefined" -> "undefined"
      [] v.t = "null" -> "null"
      [] v.t = "boolean" -> IF v.b THEN "true" ELSE "false"
      [] v.t = "object" -> "[object Object]"

\* v.key throws on null and undefined.
Nullish(v) == v.t \in {"undefined", "null"}

\* Line 256: the neutral state.
NotReady(loading) == [ready |-> FALSE, text |-> IF loading THEN "generating..." ELSE "waiting..."]

\* Lines 270-303 for one child: a field or a button with its label, null for
\* any other type; child.props.label throws when child.props is undefined.
renderChild(child) ==
    IF Lookup(child, "type") \in {Str("Input"), Str("Textarea"), Str("Button")}
    THEN IF Nullish(Lookup(child, "props")) THEN Throw("TypeError")
         ELSE Return([type |-> Lookup(child, "type").s,
                      label |-> Lookup(Lookup(child, "props"), "label")])
    ELSE Return(Null)

\* Lines 252-313: the tree of the mode (line 253), the neutral state (line
\* 255), and the card: the title of the root element (line 262), its
\* children resolved in elements with the falsy ones filtered out (line
\* 263), and what each of them renders to.
renderPreview(m, index, t, loading) ==
    LET Card(elements, root) ==
            LET Children(list, props) ==
                    IF ~Nullish(list) /\ list.t # "array" THEN Throw("TypeError")
                    ELSE LET Render(resolved) ==
                                 LET Rendered(made) ==
                                         IF \E i \in DOMAIN made : made[i].threw
                                         THEN Throw("TypeError")
                                         ELSE Return([ready |-> TRUE,
                                                      title |-> Lookup(props, "title"),
                                                      children |-> resolved,
                                                      made |-> [i \in DOMAIN made |-> made[i].v]])
                                 IN  Rendered([i \in DOMAIN resolved |-> renderChild(resolved[i])])
                             Resolve(keys) ==
                                 Render(SelectSeq([i \in DOMAIN keys |->
                                                     Lookup(elements, PropertyKey(keys[i]))],
                                                  Truthy))
                         IN  Resolve(IF Nullish(list) THEN <<>> ELSE list.a)
            IN  IF Nullish(Lookup(root, "props")) THEN Throw("TypeError")
                ELSE Children(Lookup(root, "children"), Lookup(root, "props"))
        Preview(currentTree) ==
            IF currentTree = Null THEN Return(NotReady(loading))
            ELSE IF ~Truthy(currentTree.root) THEN Return(NotReady(loading))
            ELSE IF ~Truthy(Lookup(Obj(currentTree.elements), PropertyKey(currentTree.root)))
                 THEN Return(NotReady(loading))
            ELSE Card(Obj(currentTree.elements),
                      Lookup(Obj(currentTree.elements), PropertyKey(currentTree.root)))
    IN  Preview(IF m = "simulation"
                THEN IF index >= 0 THEN SIMULATION_STAGES[index + 1].tree ELSE Null
                ELSE t)

\* The root names an element that is an object with props and, when it has
\* children, a list of string keys.
RootIsElement(t) ==
    /\ t.root.t = "string" /\ t.root.s \in DOMAIN t.elements
    /\ t.elements[t.root.s].t = "object"
    /\ Get(t.elements[t.root.s], "props").t = "object"
    /\ Get(t.elements[t.root.s], "children").t \in {"undefined", "array"}

\* The child keys of the root element that are in elements, resolved.
ChildrenInElements(t) ==
    LET list == Get(t.elements[t.root.s], "children")
        keys == IF list.t = "array" THEN list.a ELSE <<>>
        InTree(k) == k.t = "string" /\ k.s \in DOMAIN t.elements
    IN  [i \in DOMAIN SelectSeq(keys, InTree) |-> t.elements[SelectSeq(keys, InTree)[i].s]]

\* C14: a set of /root followed by an add of the element with a child that
\* is not in elements gives that root and that child list; rendering a tree
\* whose root is an element throws nothing and resolves the children to
\* those that are in elements; rendering a tree whose root is empty or is
\* no key of elements gives the neutral state.
ForwardReferencesTolerated ==
    /\ handed = <<RootLine, ElementLine>>
          => /\ tree.root = Str("f")
             /\ Get(tree.elements["f"], "children") = Arr(<<Str("g")>>)
             /\ "g" \notin DOMAIN tree.elements
    /\ \E shown \in {renderPreview(mode, stageIndex, tree, isLoading)} :
          /\ RootIsElement(tree)
                => ~shown.threw /\ shown.v.ready
                                /\ shown.v.children = SelectSeq(ChildrenInElements(tree), Truthy)
          /\ ~Truthy(tree.root) \/ (tree.root.t = "string" /\ tree.root.s \notin DOMAIN tree.elements)
                => ~shown.threw /\ shown.v = NotReady(isLoading)

\* ------------------------------------------------------------------------
\* After a cancellation (Spec)
\* ------------------------------------------------------------------------

\* C15: a step that cancels the session of abortRef, and every later step
\* for as long as no new session is started, leaves the tree and the
\* stream-line log as they were: nothing is rolled back or reset, and the
\* cancelled session hands no further line to parsePatch and publishes
\* nothing.
NoRollbackAfterCancel ==
    [][abortRef # 0 /\ abortRef' = abortRef /\ sessions'[abortRef].aborted
          => tree' = tree /\ streamLines' = streamLines /\ handed' = handed]_vars

\* A session was cancelled after it had published its first line and before
\* the body was read to its end; its AbortError has been caught.
CancelledWithLinePublished ==
    /\ abortRef # 0
    /\ sessions[abortRef].aborted
    /\ sessions[abortRef].pc = "done"
    /\ ~sessions[abortRef].eos
    /\ streamLines = <<RootLine>>
    /\ tree.root = Str("f")
    /\ \E body \in DemoBodies : Len(delivered) < Len(body)

\* ------------------------------------------------------------------------
\* Log and tree in step (SpecStream)
\* ------------------------------------------------------------------------

\* The lines for which parsePatch gave a truthy value, and those of them on
\* which applyPatch returned.
ParsedAsPatch(line) == Truthy(Patch(line))
WasApplied(line) == Truthy(Patch(line)) /\ ~applyPatch(EmptyTree, Patch(line)).threw

\* The trimmed text of lines, and their patches applied in order to t.
Trimmed(lines) == [i \in DOMAIN lines |-> Trim(lines[i])]
RECURSIVE ApplyAll(_, _)
ApplyAll(lines, t) ==
    IF lines = <<>> THEN t
    ELSE ApplyAll(Tail(lines), applyPatch(t, Patch(Head(lines))).v)

\* The log and the tree are those of the lines handed to parsePatch so far.
InStep ==
    abortRef # 0 =>
        \E applied \in {SelectSeq(handed, WasApplied)} :
            /\ streamLines = Trimmed(applied)
            /\ tree = ApplyAll(applied, EmptyTree)

CopyOnWrite ==
    handed # <<>> /\ WasApplied(Last(handed)) =>
        \E patch \in {Patch(Last(handed))} :
        \E given \in {Before.tree} :
        \E r \in {applyPatch(given, patch)} :
            /\ r.given = given
            /\ tree = r.v
            /\ Get(patch, "path") = Str("/root") => tree.elements = given.elements
            /\ OnElement(patch) /\ Get(patch, "op") \in {Str("set"), Str("add")}
                  => /\ tree.root = given.root
                     /\ DOMAIN tree.elements = DOMAIN given.elements \cup {Segments(patch)[2]}
                     /\ \A k \in DOMAIN given.elements \ {Segments(patch)[2]} :
                           tree.elements[k] = given.elements[k]

\* An element was added at a second key: the first is still there.
SecondElementAdded ==
    /\ handed = <<ElementLine, OtherElementLine>>
    /\ DOMAIN tree.elements = {"f", "g"}
    /\ Get(tree.elements["f"], "type") = Str("Form")

\* ------------------------------------------------------------------------
\* Typing (Spec)
\* ------------------------------------------------------------------------

\* The place of a phase in the order typing, streaming, complete.
Rank(p) == CASE p = "typing" -> 1 [] p = "streaming" -> 2 [] p = "complete" -> 3

\* A step of playback while typing: the prompt revealed is a prefix of the
\* fixed prompt before and after it, and one character longer when the step
\* reveals more; no stage is published; and the step to streaming is taken
\* with the whole prompt revealed, by the timeout of the pause.
TypingStep ==
    mode = "simulation" /\ phase = "typing" =>
        /\ typedPrompt = SubSeq(SIMULATION_PROMPT, 1, Len(typedPrompt))
        /\ stageIndex = -1 /\ streamLines = <<>> /\ tree = Null
        /\ mode' = "simulation" /\ phase' = "typing"
              => /\ typedPrompt' = SubSeq(SIMULATION_PROMPT, 1, Len(typedPrompt'))
                 /\ typedPrompt' # typedPrompt => Len(typedPrompt') = Len(typedPrompt) + 1
                 /\ stageIndex' = -1 /\ streamLines' = <<>> /\ tree' = Null
        /\ phase' = "streaming"
              => typedPrompt = SIMULATION_PROMPT /\ typingPause /\ ~typingPause'

\* C18: while playback types, the prompt revealed is a prefix of the fixed
\* prompt that grows by one character at a time and no stage is published;
\* the phase becomes streaming only with the whole prompt revealed and the
\* pause elapsed; and no step takes the phase backwards in the order
\* typing, streaming, complete.
TypingThenStreamingThenComplete ==
    [][TypingStep /\ Rank(phase') >= Rank(phase)]_vars

\* ------------------------------------------------------------------------
\* Operation kinds (SpecReducer)
\* ------------------------------------------------------------------------

\* C19: after a line whose path is /elements/{key} and whose op is neither
\* set nor add, the tree is the tree before that line; after a line whose
\* path is /root, whatever its op, the root is the line's value and the
\* elements are those before the line.
OnlySetAndAddWriteElements ==
    handed # <<>> /\ WasApplied(Last(handed)) =>
        \E patch \in {Patch(Last(handed))} :
            /\ OnElement(patch) /\ Get(patch, "op") \notin {Str("set"), Str("add")}
                  => tree = Before.tree
            /\ Get(patch, "path") = Str("/root")
                  => /\ tree.root = Get(patch, "value")
                     /\ tree.elements = Before.tree.elements

\* A remove of the element that was added: the line is logged, and the
\* element is still in the tree.
RemoveIgnored ==
    /\ handed = <<ElementLine, RemoveLine>>
    /\ Len(streamLines) = 2
    /\ Get(tree.elements["f"], "children") = Arr(<<Str("g")>>)

\* ------------------------------------------------------------------------
\* The loading flag (Spec)
\* ------------------------------------------------------------------------

\* C20: in every state, a session that awaits fetch or read is the session
\* of abortRef and isLoading is true, also after the catch and finally of an
\* earlier, cancelled session have run; and with a prompt that is blank, or
\* with isLoading true, handleSubmit takes no step.
LoadingTracksActiveSession ==
    /\ \A s \in Sessions :
          sessions[s].pc \in {"fetch", "read"} => isLoading /\ s = abortRef
    /\ Trim(userPrompt) = "" \/ isLoading => ~ENABLED handleSubmit(MaxSessions)

\* A second session reads while loading, after the first was cancelled and
\* its finally has run.
SecondSessionAfterCancel ==
    /\ abortRef = 2
    /\ sessions[2].pc = "read"
    /\ sessions[1].pc = "done"
    /\ sessions[1].thrower = "abort"
    /\ isLoading

\* ------------------------------------------------------------------------
\* Playback and the live pipeline (Spec)
\* ------------------------------------------------------------------------

\* C21: when playback has published stage k, the log holds the lines of the
\* stages up to k and the tree shown, the tree of stage k, is the tree that
\* parsePatch and applyPatch make of those lines, in order, from the empty
\* tree.
PlaybackAgreesWithPipeline ==
    mode = "simulation" /\ stageIndex >= 0 =>
        /\ streamLines = StageLines(stageIndex + 1)
        /\ tree = SIMULATION_STAGES[stageIndex + 1].tree
        /\ \A i \in DOMAIN streamLines : WasApplied(streamLines[i])
        /\ tree = ApplyAll(streamLines, EmptyTree)

====
